---- MODULE Spec2Model ----
(***************************************************************************)
(* Model of the fitbit_ws_server intervention pipeline.                    *)
(*                                                                         *)
(*   src/main.py                 the three websocket handlers, the two     *)
(*                               sample buffers, the control-channel       *)
(*                               reference and run_intervention_logic      *)
(*   src/lib/create_futures.py   create_features and its helpers           *)
(*                                                                         *)
(* The server is a single asyncio event loop: a handler runs without       *)
(* interruption from one await to the next.  Every action below is one     *)
(* such uninterrupted stretch of a handler.  The csv_data rows a /ws       *)
(* handler collects for the Drive upload are local to the handler and are  *)
(* read by nothing but save_to_drive; they are not part of the state.      *)
(***************************************************************************)
EXTENDS Integers, Sequences, FiniteSets, TLC

VARIABLES
    accel_buffer,        \* main.py:47  deque of [x, y, z] triplets
    hr_buffer,           \* main.py:48  deque of heart-rate readings
    android_control_ws,  \* main.py:50  the attached control socket, or None
    pc,                  \* position of each /ws handler (websocket_endpoint)
    hr_open,             \* which /ws/android_hr handlers are in their loop
    ctrl_open,           \* which /ws/android_control handlers are in their loop
    inflight,            \* run_intervention_logic calls suspended at the send
    last,                \* the call that returned or raised in the step just
                         \* taken (NoCycle after every other step)
    track,               \* whether this behaviour records the two histories
    accel_hist,          \* history: accel samples appended since the last clear
    hr_hist,             \* history: heart rates appended since the last clear
    heart_rates,         \* argument of a direct create_features call
    accelerations,       \* argument of a direct create_features call
    features_out,        \* what that create_features call produced
    pk,                  \* a direct _naive_find_peaks call: its arguments, its
                         \* position in the loop and its local list "peaks"
    skew_call,           \* a direct _safe_skew call: the build it runs in, its
                         \* argument and its result
    feat_call            \* the rest of the direct create_features call: the
                         \* build, the sample rate, the peaks the two
                         \* _find_peaks calls returned and the list returned

vars == <<accel_buffer, hr_buffer, android_control_ws, pc, hr_open, ctrl_open,
          inflight, last, track, accel_hist, hr_hist,
          heart_rates, accelerations, features_out, pk, skew_call, feat_call>>

callVars == <<heart_rates, accelerations, features_out, pk, skew_call,
              feat_call>>

(***************************************************************************)
(* Bounds of the model.                                                    *)
(***************************************************************************)
\* The windows are deque(maxlen=400) and deque(maxlen=20) in main.py:47-48.
\* The model keeps the deque semantics and scales the two capacities down.
AccelMaxLen == 2
HrMaxLen == 2
\* How many samples beyond its capacity a window may receive between clears
\* in a behaviour that records the histories.
MaxOverflow == 1
\* Longest accelerometer batch carried by one message.
MaxBatch == 2
\* Longest window handed to a direct create_features call.
MaxWin == 2

(***************************************************************************)
(* Values.                                                                 *)
(***************************************************************************)
\* float("nan"); JSON null arrives as None and np.asarray(dtype=float)
\* turns it into nan as well.
NaN == -1000
None == "None"

FitbitConns == {"f1", "f2"}
HrConns == {"h1"}
CtrlConns == {"k1", "k2"}

HrValues == {NaN, 70}
AccelSamples == {<<0, 0, 0>>, <<0, 6, 0>>}
Scores == {5, 6, 7, NaN}

SeqsUpTo(S, n) == UNION {[1..k -> S] : k \in 0..n}

AccelBatches == SeqsUpTo(AccelSamples, MaxBatch) \ {<<>>}


(***************************************************************************)
(* collections.deque(maxlen=n)                                             *)
(***************************************************************************)
\* A deque that makes room at the wrong end: the newest item is discarded.
DequeAppendDropNewest(buf, x, maxlen) ==
    IF Len(buf) >= maxlen /\ Len(buf) > 0
    THEN Append(SubSeq(buf, 1, Len(buf) - 1), x)
    ELSE Append(buf, x)

\* deque.append on a bounded deque: when the deque is full the item at the
\* left end is discarded, then the new item goes to the right end.
DequeAppend(buf, x, maxlen) ==
    IF Len(buf) >= maxlen THEN Append(Tail(buf), x) ELSE Append(buf, x)

\* for d in data_dict["data"]: accel_buffer.append([d[0], d[1], d[2]])
RECURSIVE AppendAll(_, _, _)
AppendAll(buf, batch, maxlen) ==
    IF batch = <<>> THEN buf
    ELSE AppendAll(DequeAppend(buf, Head(batch), maxlen), Tail(batch), maxlen)

(***************************************************************************)
(* numpy                                                                   *)
(***************************************************************************)
\* np.asarray(rows, dtype=float) of a sequence of rows of numbers succeeds
\* only if all rows have one length; a ragged sequence raises ValueError.
Homogeneous(rows) == \A i, j \in 1..Len(rows) : Len(rows[i]) = Len(rows[j])

\* .shape of that array: (0,) for an empty sequence, (N, L) otherwise.
NpShape2(rows) == IF rows = <<>> THEN <<0>> ELSE <<Len(rows), Len(rows[1])>>

\* .size: the product of the shape.
NpSize(shape) == IF Len(shape) = 1 THEN shape[1] ELSE shape[1] * shape[2]

\* np.all(np.isnan(arr)) for a one-dimensional array.
AllNaN(arr) == \A i \in 1..Len(arr) : arr[i] = NaN

\* Python's a < b and a > b on floats: False as soon as one side is nan.
FloatLt(a, b) == a # NaN /\ b # NaN /\ a < b

FloatGt(a, b) == FloatLt(b, a)

\* Python's a <= b on floats: False as soon as one side is nan.
FloatLeq(a, b) == a # NaN /\ b # NaN /\ a <= b

\* values[i] with Python's indices, which start at 0.
At(values, i) == values[i + 1]

(***************************************************************************)
(* create_futures.py: _naive_find_peaks (lines 26-43)                      *)
(***************************************************************************)
\* The replacement test written with >=: of two close peaks of one height
\* the later one is kept.
TallerOrEqual(values, idx, prev) ==
    ~FloatLt(At(values, idx), At(values, prev))

\* line 39  values[idx] > values[peaks[-1]]
Taller(values, idx, prev) == FloatGt(At(values, idx), At(values, prev))

\* One iteration of the loop body (lines 33-42) at index idx with the list
\* peaks: the list after the iteration, and which way the iteration went.
PeakIteration(values, height, distance, idx, peaks) ==
    IF FloatLt(At(values, idx), height)
    THEN [peaks |-> peaks, event |-> "low"]                  \* lines 33-34
    ELSE IF \/ FloatLeq(At(values, idx), At(values, idx - 1))
            \/ FloatLeq(At(values, idx), At(values, idx + 1))
    THEN [peaks |-> peaks, event |-> "notmax"]               \* lines 35-36
    ELSE IF peaks # <<>> /\ idx - peaks[Len(peaks)] < distance
    THEN IF Taller(values, idx, peaks[Len(peaks)])           \* lines 37-41
         THEN [peaks |-> [peaks EXCEPT ![Len(peaks)] = idx],
               event |-> "replaced"]
         ELSE [peaks |-> peaks, event |-> "dropped"]
    ELSE [peaks |-> Append(peaks, idx), event |-> "appended"] \* line 42

\* line 32  for idx in range(1, values.size - 1)
RECURSIVE PeakLoop(_, _, _, _, _)
PeakLoop(values, height, distance, idx, peaks) ==
    IF idx >= Len(values) - 1 THEN peaks
    ELSE PeakLoop(values, height, distance, idx + 1,
                  PeakIteration(values, height, distance, idx, peaks).peaks)

naive_find_peaks(values, height, distance) ==
    IF Len(values) < 3 THEN <<>>                             \* lines 28-29
    ELSE PeakLoop(values, height, distance, 1, <<>>)

(***************************************************************************)
(* Floats that are results.  A result is nan, or a number held exactly by  *)
(* two integers and the closed form that combines them:                    *)
(*   "ratio"       num / den                                               *)
(*   "sqrt"        sqrt(num / den)                                         *)
(*   "skew_ddof1"  the fallback of _safe_skew (lines 59-68) for n values   *)
(*                 with num = sum (n*v - sum v)^3, den = sum (n*v - sum v)^2 *)
(*   "skew_ddof0"  scipy.stats.skew(values, bias=False) of the same sums   *)
(*   "high_low"    the quotient of line 115 for the signal num sampled at  *)
(*                 den Hz, where it is not a quotient of whole numbers     *)
(***************************************************************************)
FloatNaN == [nan |-> TRUE, num |-> 0, den |-> 1, form |-> "ratio"]

Float(num, den, form) == [nan |-> FALSE, num |-> num, den |-> den, form |-> form]

FloatZero == Float(0, 1, "ratio")

RECURSIVE SumSeq(_)
SumSeq(xs) == IF xs = <<>> THEN 0 ELSE Head(xs) + SumSeq(Tail(xs))

HasNaN(arr) == \E i \in 1..Len(arr) : arr[i] = NaN

\* sum over the array of (n*v - sum v)^p: n^p times the p-th central sum.
CentralSum(values, p) ==
    LET n == Len(values)
        s == SumSeq(values)
    IN  SumSeq([i \in 1..n |-> IF p = 2 THEN (n * values[i] - s) * (n * values[i] - s)
                                ELSE (n * values[i] - s) * (n * values[i] - s)
                                     * (n * values[i] - s)])

(***************************************************************************)
(* The build.  SciPy is imported if it is installed (lines 15-23); the     *)
(* helpers use it when it is and their own fallback when it is not.        *)
(* scipy.stats.skew of a constant array is nan in current SciPy releases   *)
(* and was 0 in earlier ones.                                              *)
(***************************************************************************)
Builds == {"no_scipy", "scipy", "scipy_const_zero"}

HasScipy(build) == build # "no_scipy"

\* scipy.stats.skew(values, bias=False) for an array of 3 or more values.
scipy_skew(values, build) ==
    IF HasNaN(values) THEN FloatNaN
    ELSE IF CentralSum(values, 2) = 0
    THEN IF build = "scipy_const_zero" THEN FloatZero ELSE FloatNaN
    ELSE Float(CentralSum(values, 3), CentralSum(values, 2), "skew_ddof0")

(***************************************************************************)
(* create_futures.py: _safe_skew (lines 53-68)                             *)
(***************************************************************************)
safe_skew(values, build) ==
    IF Len(values) < 3 THEN FloatNaN                          \* lines 54-55
    ELSE IF HasScipy(build) THEN scipy_skew(values, build)    \* lines 56-57
    ELSE IF HasNaN(values) \/ CentralSum(values, 2) = 0       \* lines 59-62
    THEN FloatZero
    ELSE Float(CentralSum(values, 3), CentralSum(values, 2), "skew_ddof1")

(***************************************************************************)
(* create_futures.py: create_features, the conversion and the two checks.  *)
(* The result says whether the call raised and which statement raised.     *)
(***************************************************************************)
Raised(what) == [raised |-> TRUE, error |-> what]
Returned == [raised |-> FALSE, error |-> "none"]
NotCalled == [raised |-> FALSE, error |-> "not called"]

\* create_features with the two checks in the other order.
create_features_acc_first(hrs, accs) ==
    IF ~Homogeneous(accs)
    THEN Raised("asarray")
    ELSE LET acc_shape == NpShape2(accs) IN
         IF \/ NpSize(acc_shape) = 0
            \/ Len(acc_shape) # 2
            \/ acc_shape[2] # 3
         THEN Raised("accelerations")
         ELSE IF Len(hrs) = 0 \/ AllNaN(hrs)
              THEN Raised("heart_rates")
              ELSE Returned

create_features(hrs, accs) ==
    IF ~Homogeneous(accs)
    THEN Raised("asarray")                          \* line 138
    ELSE LET acc_shape == NpShape2(accs) IN
         IF Len(hrs) = 0 \/ AllNaN(hrs)
         THEN Raised("heart_rates")                 \* lines 140-141
         ELSE IF \/ NpSize(acc_shape) = 0
                 \/ Len(acc_shape) # 2
                 \/ acc_shape[2] # 3
              THEN Raised("accelerations")          \* lines 142-143
              ELSE Returned

(***************************************************************************)
(* scipy.signal.find_peaks(values, height=, distance=)                     *)
(***************************************************************************)
SetMax(S) == CHOOSE m \in S : \A x \in S : x <= m

SetMin(S) == CHOOSE m \in S : \A x \in S : m <= x

RECURSIVE SortedSeq(_)
SortedSeq(S) == IF S = {} THEN <<>>
                ELSE <<SetMin(S)>> \o SortedSeq(S \ {SetMin(S)})

\* The local maxima of SciPy: the middle (rounded down) of every run of
\* equal samples that is strictly above the sample on either side.  The
\* first and the last sample are never peaks.
ScipyLocalMaxima(values) ==
    LET inner == 1..(Len(values) - 2) IN
    {(lr[1] + lr[2]) \div 2 :
        lr \in {x \in inner \X inner :
                  /\ x[1] <= x[2]
                  /\ \A i \in x[1]..x[2] : At(values, i) = At(values, x[1])
                  /\ FloatLt(At(values, x[1] - 1), At(values, x[1]))
                  /\ FloatLt(At(values, x[2] + 1), At(values, x[2]))}}

\* The distance rule of SciPy: peaks are taken from the tallest down, and a
\* peak that is taken removes every peak fewer than distance samples from
\* it.  The order among peaks of one height is the order of an unstable
\* sort, so every order is possible: the result is a set of outcomes.
RECURSIVE ScipySelect(_, _, _, _)
ScipySelect(values, distance, todo, kept) ==
    IF todo = {} THEN {kept}
    ELSE LET top == {j \in todo : \A k \in todo : At(values, k) <= At(values, j)}
         IN  UNION {ScipySelect(values, distance,
                                {k \in todo : k - j >= distance \/ j - k >= distance},
                                kept \cup {j}) : j \in top}

scipy_find_peaks(values, height, distance) ==
    LET tall == {p \in ScipyLocalMaxima(values) : FloatLeq(height, At(values, p))}
    IN  {SortedSeq(K) : K \in ScipySelect(values, distance, tall, {})}

(***************************************************************************)
(* create_futures.py: _find_peaks and the features (lines 46-115, 145-169) *)
(***************************************************************************)
PeakHeight == 5        \* lines 80, 87  height=5.0
PeakDistance == 20     \* lines 80, 87  distance=20
DefaultSampleRate == 60   \* line 13  DEFAULT_SAMPLE_PERIOD = 1 / 60

\* lines 46-50: what the call can return.  A sample period is held as its
\* inverse, the sample rate in Hz.
find_peaks(values, height, distance, build) ==
    IF HasScipy(build) THEN scipy_find_peaks(values, height, distance)
    ELSE {naive_find_peaks(values, height, distance)}

\* arr[:, j] with Python's column index j.
Column(arr, j) == [i \in 1..Len(arr) |-> arr[i][j + 1]]

\* The non-negative root of a square.
ISqrt(n) == CHOOSE k \in 0..n : k * k = n

\* line 156  np.linalg.norm(acc_arr, axis=1), for rows whose norm is whole.
Norm(row) == IF HasNaN(row) THEN NaN
             ELSE ISqrt(row[1] * row[1] + row[2] * row[2] + row[3] * row[3])

NotNaN(v) == v # NaN

\* lines 71-74
first_last_valid(arr) ==
    LET valid == SelectSeq(arr, NotNaN)
    IN  IF valid = <<>> THEN <<NaN, NaN>> ELSE <<valid[1], valid[Len(valid)]>>

\* line 145  float(np.nanmean(hr_arr))
NanMean(arr) ==
    LET valid == SelectSeq(arr, NotNaN)
    IN  IF valid = <<>> THEN FloatNaN ELSE Float(SumSeq(valid), Len(valid), "ratio")

\* line 146  float(np.nanmax(hr_arr))
NanMax(arr) ==
    LET valid == SelectSeq(arr, NotNaN)
    IN  IF valid = <<>> THEN FloatNaN
        ELSE Float(SetMax({valid[i] : i \in 1..Len(valid)}), 1, "ratio")

\* lines 147-150
LambdaHr(arr) ==
    LET fl == first_last_valid(arr)
    IN  IF fl[1] = NaN \/ fl[2] = NaN THEN FloatNaN
        ELSE Float(fl[2] - fl[1], 1, "ratio")

\* lines 77-83, given the peaks _find_peaks returned for y_values.
y_peak_mean(y_values, peaks) ==
    IF Len(y_values) = 0 THEN FloatNaN
    ELSE IF Len(peaks) = 0 THEN FloatNaN
    ELSE LET at_peaks == [i \in 1..Len(peaks) |-> At(y_values, peaks[i])]
         IN  IF HasNaN(at_peaks) THEN FloatNaN
             ELSE Float(SumSeq(at_peaks), Len(peaks), "ratio")

\* np.diff
Diff(xs) == [i \in 1..(Len(xs) - 1) |-> xs[i + 1] - xs[i]]

\* lines 86-93, given the peaks _find_peaks returned for xyz: the pair
\* (mean, std) of the intervals between consecutive peaks, in seconds.
xyz_cycle_stats(peaks, rate) ==
    IF Len(peaks) < 2 THEN <<FloatNaN, FloatNaN>>
    ELSE LET intervals == Diff(peaks)
             k == Len(intervals)
         IN  <<Float(SumSeq(intervals), k * rate, "ratio"),
               Float(CentralSum(intervals, 2), k * k * k * rate * rate, "sqrt")>>

\* line 107-109: the bins of np.fft.rfftfreq(n, d=1/rate), bin k at k*rate/n
\* Hz, that lie in [0.5, 1.5) and at or above 2.0.
LowBins(n, rate) == {k \in 0..(n \div 2) : n <= 2 * k * rate /\ 2 * k * rate < 3 * n}

HighBins(n, rate) == {k \in 0..(n \div 2) : k * rate >= 2 * n}

\* cos and -sin of 2*pi*m/4.
Cos4 == <<1, 0, -1, 0>>
MinusSin4 == <<0, -1, 0, 1>>

\* lines 100-102 for a signal of 4 samples: |rfft(signal)[k]|^2 of the
\* signal less its mean, times 16 (the signal is held times 4).
Power4(xyz, k) ==
    LET s == SumSeq(xyz)
        re == SumSeq([j \in 1..4 |-> (4 * xyz[j] - s) * Cos4[(((j - 1) * k) % 4) + 1]])
        im == SumSeq([j \in 1..4 |-> (4 * xyz[j] - s) * MinusSin4[(((j - 1) * k) % 4) + 1]])
    IN  re * re + im * im

RECURSIVE SumOver(_, _)
SumOver(xyz, bins) ==
    IF bins = {} THEN 0
    ELSE Power4(xyz, SetMin(bins)) + SumOver(xyz, bins \ {SetMin(bins)})

IsPrime(n) == n > 1 /\ \A d \in 2..(n - 1) : n % d # 0

\* lines 100-111: what low_power is for a signal of whole samples that is
\* not constant.  With 4 samples the transform has the factors 1, -1, i and
\* -i only and the mean is exact, so the power of a bin is a whole number
\* and is computed here.  With another number of samples the factors are
\* rounded: a bin whose power is not 0 in exact arithmetic has power, which
\* is every bin but bin 0 when the number of samples is prime; for any other
\* length the rounding decides whether the sum is exactly 0.
LowPower(xyz, rate) ==
    LET low == LowBins(Len(xyz), rate) IN
    IF low = {} THEN "zero"                                    \* line 111
    ELSE IF Len(xyz) = 4
    THEN IF SumOver(xyz, low) = 0 THEN "zero" ELSE "positive"
    ELSE IF IsPrime(Len(xyz)) THEN "positive"
    ELSE "rounding"

\* line 115 for a low_power that is not 0.
HighLowQuotient(xyz, rate) ==
    LET high == HighBins(Len(xyz), rate) IN
    IF high = {} THEN FloatZero                          \* line 112  0.0 / x
    ELSE IF Len(xyz) = 4
    THEN Float(SumOver(xyz, high), SumOver(xyz, LowBins(4, rate)), "ratio")
    ELSE Float(xyz, rate, "high_low")

\* lines 96-115: what the call can return.
xyz_high_low_ratio(xyz, rate) ==
    IF Len(xyz) < 4 THEN {FloatNaN}                            \* lines 97-98
    ELSE IF HasNaN(xyz) THEN {FloatNaN}        \* nan spectrum: nan or x / nan
    ELSE IF CentralSum(xyz, 2) = 0 THEN {FloatNaN}             \* lines 104-105
    ELSE CASE LowPower(xyz, rate) = "zero" -> {FloatNaN}       \* lines 113-114
           [] LowPower(xyz, rate) = "positive" -> {HighLowQuotient(xyz, rate)}
           [] LowPower(xyz, rate) = "rounding" ->
                  {FloatNaN, HighLowQuotient(xyz, rate)}

\* The returned list with the two cycle statistics in the order in which
\* _xyz_cycle_stats returns them.
FeatureListMeanFirst(mean_hr, max_hr, lambda_hr, y_skewness, xyz_cycle_std, xyz_cycle_mean, y_peak, ratio) ==
    <<mean_hr, max_hr, lambda_hr, y_skewness, xyz_cycle_mean, xyz_cycle_std,
      y_peak, ratio>>

\* lines 160-169
FeatureList(mean_hr, max_hr, lambda_hr, y_skewness, xyz_cycle_std, xyz_cycle_mean, y_peak, ratio) ==
    <<mean_hr, max_hr, lambda_hr, y_skewness, xyz_cycle_std, xyz_cycle_mean,
      y_peak, ratio>>

\* lines 145-169: the list create_features returns for windows that passed
\* the two checks, given what the two _find_peaks calls and the call of
\* _xyz_high_low_ratio returned.
feature_values(hrs, accs, rate, build, y_peaks, xyz_peaks, ratio) ==
    LET y_values == Column(accs, 1)                            \* line 152
        xyz == [i \in 1..Len(accs) |-> Norm(accs[i])]          \* line 156
        cycle == xyz_cycle_stats(xyz_peaks, rate)              \* line 157
        xyz_cycle_mean == cycle[1]
        xyz_cycle_std == cycle[2]
    IN  FeatureList(NanMean(hrs), NanMax(hrs), LambdaHr(hrs),
                    safe_skew(y_values, build),
                    xyz_cycle_std, xyz_cycle_mean,
                    y_peak_mean(y_values, y_peaks),
                    ratio)

(***************************************************************************)
(* Exceptions and the except clauses that meet them.                       *)
(***************************************************************************)
\* What can come out of the three fallible steps of a decision cycle.
ExtractErrors == {"ValueError"}
PredictErrors == {"ValueError"}
SendErrors == {"RuntimeError", "CancelledError"}

\* Does an except clause catch an exception of class exc?  CancelledError
\* derives from BaseException, the other classes from Exception.
Catches(clause, exc) ==
    CASE clause = "bare" -> TRUE
      [] clause = "Exception" -> exc # "CancelledError"
      [] OTHER -> clause = exc

\* The send guarded by "except Exception:" instead of a bare "except:".
SendExceptException == "Exception"

ExtractExcept == "Exception"     \* main.py:227  except Exception as e
PredictExcept == "Exception"     \* main.py:235  except Exception as e
SendExcept == "bare"             \* main.py:247  except:


(***************************************************************************)
(* main.py: run_intervention_logic                                         *)
(***************************************************************************)
RpeThreshold == 6

\* The threshold test written with < instead of <=.
ModeOfStrict(pred_rpe) ==
    IF pred_rpe # NaN /\ pred_rpe < RpeThreshold THEN "normal" ELSE "minus10"

\* An extraction failure answered with the intervening mode.
ExtractFailureModeReduce == "minus10"

\* main.py:240  mode = "normal" if pred_rpe <= 6 else "minus10"
ModeOf(pred_rpe) == IF FloatLeq(pred_rpe, RpeThreshold) THEN "normal" ELSE "minus10"

ExtractFailureMode == "normal"   \* main.py:229  return "normal"
PredictFailureMode == "normal"   \* main.py:237  return "normal"

\* rf_model.predict is opaque: it raises, or it answers a score.
ClfOutcomes ==
    [raised : {TRUE}, score : {NaN}, exc : PredictErrors]
        \cup [raised : {FALSE}, score : Scores, exc : {"none"}]

\* The mode sent to every open control socket instead of the referenced one.
SendTargetsBroadcast(ws) == IF ws # None THEN ctrl_open ELSE {}

\* lines 244-246  the sockets the mode is sent to: the one the reference
\* holds, if it holds one.
SendTargets(ws) == IF ws # None THEN {ws} ELSE {}

\* The call with the return of line 229 missing: after a failed extraction
\* it goes on to the classifier.
run_intervention_logic_falls_through(hrs, accs, clf, ws) ==
    LET feats == create_features(hrs, accs)
        base == [extract |-> IF feats.raised THEN "raised" ELSE "ok",
                 predict |-> "skipped", score |-> NaN,
                 mode |-> "none", ws |-> ws, targets |-> {},
                 steps |-> <<"extract", "predict">>, exit |-> "return"]
    IN  IF clf.raised
        THEN [base EXCEPT !.predict = "raised", !.mode = PredictFailureMode]
        ELSE IF ws # None
        THEN [base EXCEPT !.predict = "ok", !.score = clf.score,
                          !.mode = ModeOf(clf.score),
                          !.targets = {ws},
                          !.steps = <<"extract", "predict", "send">>,
                          !.exit = "await"]
        ELSE [base EXCEPT !.predict = "ok", !.score = clf.score,
                          !.mode = ModeOf(clf.score),
                          !.exit = "clear"]

\* The call from its first line to the point where it returns or suspends
\* (lines 216-246), for given buffer contents, classifier outcome and
\* control-channel reference.  exit is "return" for the two early returns,
\* "raise" for an exception no except clause of the function catches,
\* "await" when the call suspends in send_json and "clear" when it skips
\* the send and goes on to line 251.
run_intervention_logic(hrs, accs, clf, ws) ==
    LET feats == create_features(hrs, accs)
        base == [extract |-> "ok", predict |-> "skipped", score |-> NaN,
                 mode |-> "none", ws |-> ws, targets |-> {},
                 steps |-> <<"extract">>, exit |-> "return"]
    IN  IF feats.raised
        THEN IF \E e \in ExtractErrors : ~Catches(ExtractExcept, e)
             THEN [base EXCEPT !.extract = "raised", !.exit = "raise"]
             ELSE [base EXCEPT !.extract = "raised",
                               !.mode = ExtractFailureMode]
        ELSE IF clf.raised
        THEN IF ~Catches(PredictExcept, clf.exc)
             THEN [base EXCEPT !.predict = "raised", !.exit = "raise",
                               !.steps = <<"extract", "predict">>]
             ELSE [base EXCEPT !.predict = "raised",
                               !.mode = PredictFailureMode,
                               !.steps = <<"extract", "predict">>]
        ELSE IF SendTargets(ws) # {}
        THEN [base EXCEPT !.predict = "ok", !.score = clf.score,
                          !.mode = ModeOf(clf.score),
                          !.targets = SendTargets(ws),
                          !.steps = <<"extract", "predict", "send">>,
                          !.exit = "await"]
        ELSE [base EXCEPT !.predict = "ok", !.score = clf.score,
                          !.mode = ModeOf(clf.score),
                          !.steps = <<"extract", "predict">>,
                          !.exit = "clear"]

\* The record kept of a call that is over.  trigger is the data_type of the
\* message whose handling made the call; ret is the returned mode, or
\* "raised" when the call ended with an exception; ws is the control-channel
\* reference the call saw; msgs are the messages it delivered, and
\* accel_left, hr_left the lengths of the two buffers when it ended.
NoCycle ==
    [id |-> 0, conn |-> None, trigger |-> "none", extract |-> "none", predict |-> "none",
     score |-> NaN, mode |-> "none", ws |-> None, steps |-> <<>>,
     send |-> "none", msgs |-> {}, ret |-> "none",
     accel_left |-> 0, hr_left |-> 0]

Finished(id, c, trigger, r, snd, ret, accs, hrs, cleared) ==
    [id |-> id, conn |-> c, trigger |-> trigger, extract |-> r.extract, predict |-> r.predict,
     score |-> r.score, mode |-> r.mode, ws |-> r.ws,
     steps |-> IF cleared THEN Append(r.steps, "clear") ELSE r.steps,
     send |-> snd,
     msgs |-> IF snd = "ok"
              THEN {[mode |-> r.mode, to |-> k] : k \in r.targets}
              ELSE {},
     ret |-> ret, accel_left |-> Len(accs), hr_left |-> Len(hrs)]

(***************************************************************************)
(* Initial state: the module-level assignments of main.py:47-50, no        *)
(* connection accepted yet.                                                *)
(***************************************************************************)
ServerInit ==
    /\ accel_buffer = <<>>
    /\ hr_buffer = <<>>
    /\ android_control_ws = None
    /\ pc = [c \in FitbitConns |-> "closed"]
    /\ hr_open = {}
    /\ ctrl_open = {}
    /\ inflight = {}
    /\ last = NoCycle
    /\ accel_hist = <<>>
    /\ hr_hist = <<>>

\* No direct _naive_find_peaks call.
NoPeakCall == [at |-> "idle", values |-> <<>>, height |-> 0, distance |-> 0,
               idx |-> 0, peaks |-> <<>>, before |-> <<>>, event |-> "none"]

\* No direct _safe_skew call.
NoSkewCall == [at |-> "idle", build |-> "no_scipy", values |-> <<>>,
               result |-> FloatNaN]

\* No direct create_features call, or one that has not returned a list.
NoFeatCall == [build |-> "no_scipy", rate |-> DefaultSampleRate,
               y_peaks |-> <<>>, xyz_peaks |-> <<>>, feats |-> <<>>]

NoCall ==
    /\ heart_rates = <<>>
    /\ accelerations = <<>>
    /\ features_out = NotCalled
    /\ pk = NoPeakCall
    /\ skew_call = NoSkewCall
    /\ feat_call = NoFeatCall

Init == ServerInit /\ NoCall /\ track = FALSE

(***************************************************************************)
(* The histories, and the two clearing statements.                         *)
(***************************************************************************)
\* A behaviour that records the histories stops appending to a window once
\* it has received MaxOverflow samples more than it can hold.
MayAppend(hist, n, maxlen) == track => Len(hist) + n <= maxlen + MaxOverflow

Recorded(hist, items) == IF track THEN hist \o items ELSE hist

\* lines 251-252  accel_buffer.clear(); hr_buffer.clear()
ClearBuffers ==
    /\ accel_buffer' = <<>>
    /\ hr_buffer' = <<>>
    /\ accel_hist' = <<>>
    /\ hr_hist' = <<>>

(***************************************************************************)
(* /ws: websocket_endpoint (main.py:56-149)                                *)
(***************************************************************************)
\* A handler that reads its next message while its decision cycle is still
\* suspended (the cycle started as a task instead of being awaited).
CanReceiveDuringCycle(c) == pc[c] # "closed"

\* The handler is suspended in receive_text (line 74) and takes the next
\* message of its connection.
CanReceive(c) == pc[c] = "recv"

\* line 58  await websocket.accept()
FitbitConnect(c) ==
    /\ pc[c] = "closed"
    /\ pc' = [pc EXCEPT ![c] = "recv"]
    /\ last' = NoCycle
    /\ UNCHANGED <<accel_buffer, hr_buffer, android_control_ws, hr_open,
                   ctrl_open, inflight, track, accel_hist, hr_hist, callVars>>

\* lines 148-149  receive_text raises WebSocketDisconnect, the handler ends;
\* or lines 74-128 raise something else (a frame that is not text, not JSON
\* or without a key that is read), which ends the handler as well.
FitbitDisconnect(c) ==
    /\ CanReceive(c)
    /\ pc' = [pc EXCEPT ![c] = "closed"]
    /\ last' = NoCycle
    /\ UNCHANGED <<accel_buffer, hr_buffer, android_control_ws, hr_open,
                   ctrl_open, inflight, track, accel_hist, hr_hist, callVars>>

\* lines 80-81  "finish": the handler enters save_to_drive, whose awaits
\* (lines 156-160) hand the event loop to the other handlers.
RecvFinish(c) ==
    /\ CanReceive(c)
    /\ pc' = [pc EXCEPT ![c] = "upload"]
    /\ last' = NoCycle
    /\ UNCHANGED <<accel_buffer, hr_buffer, android_control_ws, hr_open,
                   ctrl_open, inflight, track, accel_hist, hr_hist, callVars>>

\* lines 81-91, 155-175  save_to_drive is over: it returned and the handler
\* reads its next message, or it raised, which nothing catches and which
\* ends the handler.
UploadDone(c, uploaded) ==
    /\ pc[c] = "upload"
    /\ pc' = [pc EXCEPT ![c] = IF uploaded THEN "recv" ELSE "closed"]
    /\ last' = NoCycle
    /\ UNCHANGED <<accel_buffer, hr_buffer, android_control_ws, hr_open,
                   ctrl_open, inflight, track, accel_hist, hr_hist, callVars>>

\* lines 96-110  "accelerometer": every sample of the batch is appended
RecvAccel(c, batch) ==
    /\ CanReceive(c)
    /\ MayAppend(accel_hist, Len(batch), AccelMaxLen)
    /\ accel_buffer' = AppendAll(accel_buffer, batch, AccelMaxLen)
    /\ accel_hist' = Recorded(accel_hist, batch)
    /\ last' = NoCycle
    /\ UNCHANGED <<hr_buffer, android_control_ws, pc, hr_open, ctrl_open,
                   inflight, track, hr_hist, callVars>>

\* An identifier for a new call: the least one no suspended call bears.
FreshId == CHOOSE i \in 1..(Cardinality(inflight) + 1) :
               \A cy \in inflight : cy.id # i

\* A heart_rate message taken for a trigger as well.
StartsCycleAlsoHeartRate(data_type) == data_type \in {"fatigue", "heart_rate"}

\* line 133  if data_dict["data_type"] == "fatigue"
StartsCycle(data_type) == data_type = "fatigue"

\* line 134  await run_intervention_logic(), up to its return or up to the
\* await of the send.  A call that suspends keeps, in a behaviour that
\* records the histories, the two windows as its extraction read them.
RunCycle(c, trigger, clf) ==
    LET r == run_intervention_logic(hr_buffer, accel_buffer, clf,
                                    android_control_ws)
        id == FreshId
    IN  CASE r.exit = "return" ->
               /\ last' = Finished(id, c, trigger, r, "none", r.mode,
                                   accel_buffer, hr_buffer, FALSE)
               /\ UNCHANGED <<accel_buffer, hr_buffer, accel_hist,
                              hr_hist, pc, inflight>>
          [] r.exit = "raise" ->
               /\ last' = Finished(id, c, trigger, r, "none", "raised",
                                   accel_buffer, hr_buffer, FALSE)
               /\ pc' = [pc EXCEPT ![c] = "closed"]
               /\ UNCHANGED <<accel_buffer, hr_buffer, accel_hist,
                              hr_hist, inflight>>
          [] r.exit = "clear" ->
               /\ ClearBuffers
               /\ last' = Finished(id, c, trigger, r, "none", r.mode,
                                   <<>>, <<>>, TRUE)
               /\ UNCHANGED <<pc, inflight>>
          [] r.exit = "await" ->
               /\ inflight' = inflight \cup
                      {[id |-> id, conn |-> c, trigger |-> trigger, run |-> r,
                        seen |-> IF track THEN <<accel_buffer, hr_buffer>>
                                 ELSE <<>>]}
               /\ pc' = [pc EXCEPT ![c] = "cycle"]
               /\ last' = NoCycle
               /\ UNCHANGED <<accel_buffer, hr_buffer, accel_hist,
                              hr_hist>>

\* lines 115-146  a message that is neither "finish" nor "accelerometer":
\* a CSV row, and for a trigger the decision cycle.
RecvOther(c, data_type, clf) ==
    /\ CanReceive(c)
    /\ UNCHANGED <<android_control_ws, hr_open, ctrl_open, track, callVars>>
    /\ IF StartsCycle(data_type)
       THEN RunCycle(c, data_type, clf)
       ELSE /\ last' = NoCycle
            /\ UNCHANGED <<accel_buffer, hr_buffer, accel_hist, hr_hist, pc,
                           inflight>>

\* What rf_model.predict may do for a message of this type: it is reached
\* only by a message that starts a cycle.
ClfFor(data_type) ==
    IF StartsCycle(data_type) THEN ClfOutcomes
    ELSE {[raised |-> FALSE, score |-> NaN, exc |-> "none"]}

\* lines 118-128  "heart_rate" on /ws goes to the CSV rows only
RecvHeartRate(c) ==
    \E clf \in ClfFor("heart_rate") : RecvOther(c, "heart_rate", clf)

\* lines 121-146  "fatigue": a CSV row, then run_intervention_logic
RecvFatigue(c, clf) == RecvOther(c, "fatigue", clf)

\* A send that ends only by delivering: it never fails, and waits for ever
\* on a socket that has gone.
SendEndsOnlyDelivered(cy, outcome) ==
    outcome = "ok" /\ cy.run.targets \subseteq ctrl_open

\* line 246  how the awaited send_json can end: it returns or it raises,
\* whether or not the handler of the socket is still running.
SendCanEnd(cy, outcome) == outcome \in {"ok"} \cup SendErrors

\* lines 246-254  the send is over: it returned, or failed with an
\* exception; then the clear and the return to the handler's loop.
SendDone(cy, outcome) ==
    /\ cy \in inflight
    /\ SendCanEnd(cy, outcome)
    /\ inflight' = inflight \ {cy}
    /\ IF outcome = "ok" \/ Catches(SendExcept, outcome)
       THEN /\ ClearBuffers
            /\ last' = Finished(cy.id, cy.conn, cy.trigger, cy.run, outcome,
                                cy.run.mode,
                                <<>>, <<>>, TRUE)
            /\ pc' = [pc EXCEPT ![cy.conn] = "recv"]
       ELSE /\ last' = Finished(cy.id, cy.conn, cy.trigger, cy.run, outcome,
                                "raised",
                                accel_buffer, hr_buffer, FALSE)
            /\ pc' = [pc EXCEPT ![cy.conn] = "closed"]
            /\ UNCHANGED <<accel_buffer, hr_buffer, accel_hist, hr_hist>>
    /\ UNCHANGED <<android_control_ws, hr_open, ctrl_open, track, callVars>>

(***************************************************************************)
(* /ws/android_hr: android_hr (main.py:181-193)                            *)
(***************************************************************************)
HrConnect(h) ==
    /\ h \notin hr_open
    /\ hr_open' = hr_open \cup {h}
    /\ last' = NoCycle
    /\ UNCHANGED <<accel_buffer, hr_buffer, android_control_ws, pc, ctrl_open,
                   inflight, track, accel_hist, hr_hist, callVars>>

HrDisconnect(h) ==
    /\ h \in hr_open
    /\ hr_open' = hr_open \ {h}
    /\ last' = NoCycle
    /\ UNCHANGED <<accel_buffer, hr_buffer, android_control_ws, pc, ctrl_open,
                   inflight, track, accel_hist, hr_hist, callVars>>

\* The handler is suspended in receive_text (line 188).
CanReceiveHr(h) == h \in hr_open

\* lines 188-190  hr_buffer.append(hr)
HrRecv(h, hr) ==
    /\ CanReceiveHr(h)
    /\ MayAppend(hr_hist, 1, HrMaxLen)
    /\ hr_buffer' = DequeAppend(hr_buffer, hr, HrMaxLen)
    /\ hr_hist' = Recorded(hr_hist, <<hr>>)
    /\ last' = NoCycle
    /\ UNCHANGED <<accel_buffer, android_control_ws, pc, hr_open, ctrl_open,
                   inflight, track, accel_hist, callVars>>

(***************************************************************************)
(* /ws/android_control: android_control (main.py:199-210)                  *)
(***************************************************************************)
\* lines 201-203  accept, android_control_ws = websocket
CtrlConnect(k) ==
    /\ k \notin ctrl_open
    /\ ctrl_open' = ctrl_open \cup {k}
    /\ android_control_ws' = k
    /\ last' = NoCycle
    /\ UNCHANGED <<accel_buffer, hr_buffer, pc, hr_open, inflight, track,
                   accel_hist, hr_hist, callVars>>

\* What a client can send: a text frame or a binary one.
Frames == {"text", "binary"}

\* line 207  a message from the Android side.  A text frame is read and
\* dropped.  receive_text raises KeyError for a binary frame that the server
\* hands over without a text key; line 208 does not catch it, so the handler
\* ends without line 209 and the reference keeps the socket.  A handler
\* that is cancelled ends the same way.
CtrlRecv(k, frame) ==
    /\ k \in ctrl_open
    /\ ctrl_open' = IF frame = "text" THEN ctrl_open ELSE ctrl_open \ {k}
    /\ last' = NoCycle
    /\ UNCHANGED <<accel_buffer, hr_buffer, android_control_ws, pc, hr_open,
                   inflight, track, accel_hist, hr_hist, callVars>>

\* lines 208-210  receive_text raises WebSocketDisconnect:
\* android_control_ws = None, whichever socket it held
CtrlDisconnect(k) ==
    /\ k \in ctrl_open
    /\ ctrl_open' = ctrl_open \ {k}
    /\ android_control_ws' = None
    /\ last' = NoCycle
    /\ UNCHANGED <<accel_buffer, hr_buffer, pc, hr_open, inflight, track,
                   accel_hist, hr_hist, callVars>>

(***************************************************************************)
(* The server: any number of clients on the three endpoints.               *)
(***************************************************************************)
Next ==
    \/ \E c \in FitbitConns : FitbitConnect(c)
    \/ \E c \in FitbitConns : FitbitDisconnect(c)
    \/ \E c \in FitbitConns : RecvFinish(c)
    \/ \E c \in FitbitConns, uploaded \in BOOLEAN : UploadDone(c, uploaded)
    \/ \E c \in FitbitConns, batch \in AccelBatches : RecvAccel(c, batch)
    \/ \E c \in FitbitConns : RecvHeartRate(c)
    \/ \E c \in FitbitConns, clf \in ClfOutcomes : RecvFatigue(c, clf)
    \/ \E cy \in inflight, outcome \in {"ok"} \cup SendErrors : SendDone(cy, outcome)
    \/ \E h \in HrConns : HrConnect(h)
    \/ \E h \in HrConns : HrDisconnect(h)
    \/ \E h \in HrConns, hr \in HrValues : HrRecv(h, hr)
    \/ \E k \in CtrlConns : CtrlConnect(k)
    \/ \E k \in CtrlConns, frame \in Frames : CtrlRecv(k, frame)
    \/ \E k \in CtrlConns : CtrlDisconnect(k)

Spec == Init /\ [][Next]_vars

\* The server under the assumption that an awaited send_json eventually
\* returns or raises: the send of each suspended call is eventually over.
SendsEnd ==
    \A c \in FitbitConns :
        WF_vars(\E cy \in inflight, outcome \in {"ok"} \cup SendErrors :
                    cy.conn = c /\ SendDone(cy, outcome))

SpecLiveAll == Init /\ [][Next]_vars /\ SendsEnd

(***************************************************************************)
(* The server with one client on /ws, the single client the comment of     *)
(* main.py:45 takes as given, and any number on the other two endpoints.   *)
(***************************************************************************)
NextOne ==
    \/ FitbitConnect("f1")
    \/ FitbitDisconnect("f1")
    \/ RecvFinish("f1")
    \/ \E uploaded \in BOOLEAN : UploadDone("f1", uploaded)
    \/ \E batch \in AccelBatches : RecvAccel("f1", batch)
    \/ RecvHeartRate("f1")
    \/ \E clf \in ClfOutcomes : RecvFatigue("f1", clf)
    \/ \E cy \in inflight, outcome \in {"ok"} \cup SendErrors : SendDone(cy, outcome)
    \/ \E h \in HrConns : HrConnect(h)
    \/ \E h \in HrConns : HrDisconnect(h)
    \/ \E h \in HrConns, hr \in HrValues : HrRecv(h, hr)
    \/ \E k \in CtrlConns : CtrlConnect(k)
    \/ \E k \in CtrlConns, frame \in Frames : CtrlRecv(k, frame)
    \/ \E k \in CtrlConns : CtrlDisconnect(k)

SpecOne == Init /\ [][NextOne]_vars

SpecLive == Init /\ [][NextOne]_vars /\ SendsEnd

(***************************************************************************)
(* The server with one client on each endpoint (the deployment the         *)
(* comments of main.py:45, 179 and 197 speak of), recording the histories  *)
(* of the two windows.                                                     *)
(***************************************************************************)
InitBuf == ServerInit /\ NoCall /\ track = TRUE

NextBuf ==
    \/ FitbitConnect("f1")
    \/ FitbitDisconnect("f1")
    \/ \E batch \in AccelBatches : RecvAccel("f1", batch)
    \/ \E clf \in ClfOutcomes : RecvFatigue("f1", clf)
    \/ \E cy \in inflight, outcome \in {"ok"} \cup SendErrors : SendDone(cy, outcome)
    \/ HrConnect("h1")
    \/ HrDisconnect("h1")
    \/ \E hr \in HrValues : HrRecv("h1", hr)
    \/ CtrlConnect("k1")
    \/ CtrlDisconnect("k1")

SpecBuf == InitBuf /\ [][NextBuf]_vars

(***************************************************************************)
(* A direct call of create_features on windows of any shape.               *)
(***************************************************************************)
\* Rows of an accelerations argument: triplets, and rows that are not.
AccRows == {<<>>, <<0, 6>>, <<0, 0, 0>>, <<0, 6, 0>>, <<NaN, 6, 0>>,
            <<0, 6, 0, 1>>}

\* Heart rates of a heart_rates argument.
CallHrValues == {NaN, 70, 80}

\* Rows of well-formed windows, with norms 0, 6 and 5.
ValidRows == {<<0, 0, 0>>, <<0, 6, 0>>, <<3, 4, 0>>}

\* Longest well-formed window of free content.
MaxValidWin == 5

\* A window long enough for two peaks PeakDistance apart: LongWin rows,
\* all at rest but for single-sample pulses at chosen rows.
LongWin == 23

PulseRows == {2, 12, LongWin - 1}

PulseWindow(P) == [i \in 1..LongWin |-> IF i \in P THEN <<0, 6, 0>> ELSE <<0, 0, 0>>]

CallWindows ==
    SeqsUpTo(AccRows, MaxWin) \cup SeqsUpTo(ValidRows, MaxValidWin)
        \cup {PulseWindow(P) : P \in SUBSET PulseRows}

\* The sample rates of a call: the default, and for windows of 4 rows and
\* more of free content also 4 Hz, which puts bin 1 in the low band, and of
\* an even number of rows the last bin in the high band.
CallRates(accs) ==
    IF 4 <= Len(accs) /\ Len(accs) <= MaxValidWin
    THEN {DefaultSampleRate, 4}
    ELSE {DefaultSampleRate}

InitCall ==
    /\ ServerInit
    /\ track = FALSE
    /\ heart_rates \in SeqsUpTo(CallHrValues, MaxWin)
    /\ accelerations \in CallWindows
    /\ features_out = NotCalled
    /\ pk = NoPeakCall
    /\ skew_call = NoSkewCall
    /\ \E build \in Builds, rate \in CallRates(accelerations) :
           feat_call = [NoFeatCall EXCEPT !.build = build, !.rate = rate]

CallCreateFeatures ==
    /\ features_out = NotCalled
    /\ features_out' = create_features(heart_rates, accelerations)
    /\ IF features_out'.raised
       THEN feat_call' = feat_call
       ELSE LET xyz == [i \in 1..Len(accelerations) |-> Norm(accelerations[i])] IN
            \E y_peaks \in find_peaks(Column(accelerations, 1), PeakHeight,
                                      PeakDistance, feat_call.build),
               xyz_peaks \in find_peaks(xyz, PeakHeight, PeakDistance,
                                        feat_call.build),
               ratio \in xyz_high_low_ratio(xyz, feat_call.rate) :
                feat_call' = [feat_call EXCEPT
                    !.y_peaks = y_peaks,
                    !.xyz_peaks = xyz_peaks,
                    !.feats = feature_values(heart_rates, accelerations,
                                             feat_call.rate, feat_call.build,
                                             y_peaks, xyz_peaks, ratio)]
    /\ UNCHANGED <<accel_buffer, hr_buffer, android_control_ws, pc, hr_open,
                   ctrl_open, inflight, last, track, accel_hist, hr_hist,
                   heart_rates, accelerations, pk, skew_call>>

NextCall == CallCreateFeatures

SpecCall == InitCall /\ [][NextCall]_vars

(***************************************************************************)
(* A direct call of _naive_find_peaks, one loop iteration per step.        *)
(***************************************************************************)
\* Longest sequence handed to the peak detector.
MaxPeakLen == 7

PeakValues == {0, 5, 6, 7}
PeakHeights == {5, 6}
PeakDistances == {1, 3}

\* Sequences with nan in them (a JSON null in a sample becomes nan in
\* np.asarray(..., dtype=float)), and the longest of them.
NanPeakValues == {NaN, 0, 6}
MaxNanPeakLen == 5

InitPeaks ==
    /\ ServerInit
    /\ track = FALSE
    /\ heart_rates = <<>>
    /\ accelerations = <<>>
    /\ features_out = NotCalled
    /\ skew_call = NoSkewCall
    /\ feat_call = NoFeatCall
    /\ \E values \in SeqsUpTo(PeakValues, MaxPeakLen)
                         \cup SeqsUpTo(NanPeakValues, MaxNanPeakLen),
          height \in PeakHeights, distance \in PeakDistances :
           pk = [NoPeakCall EXCEPT !.at = "call", !.values = values,
                                   !.height = height, !.distance = distance]

\* lines 28-31: the size test, then peaks = [] and the first index.
PeaksEnter ==
    /\ pk.at = "call"
    /\ pk' = IF Len(pk.values) < 3
             THEN [pk EXCEPT !.at = "done"]
             ELSE [pk EXCEPT !.at = "loop", !.idx = 1]
    /\ UNCHANGED <<accel_buffer, hr_buffer, android_control_ws, pc, hr_open,
                   ctrl_open, inflight, last, track, accel_hist, hr_hist,
                   heart_rates, accelerations, features_out, skew_call,
                   feat_call>>

\* lines 32-42: one iteration of the loop.
PeaksIterate ==
    /\ pk.at = "loop"
    /\ pk.idx < Len(pk.values) - 1
    /\ LET it == PeakIteration(pk.values, pk.height, pk.distance, pk.idx, pk.peaks)
       IN pk' = [pk EXCEPT !.idx = pk.idx + 1, !.peaks = it.peaks,
                           !.before = pk.peaks, !.event = it.event]
    /\ UNCHANGED <<accel_buffer, hr_buffer, android_control_ws, pc, hr_open,
                   ctrl_open, inflight, last, track, accel_hist, hr_hist,
                   heart_rates, accelerations, features_out, skew_call,
                   feat_call>>

\* line 43: the range is exhausted and the list is returned.
PeaksReturn ==
    /\ pk.at = "loop"
    /\ pk.idx >= Len(pk.values) - 1
    /\ pk' = [pk EXCEPT !.at = "done"]
    /\ UNCHANGED <<accel_buffer, hr_buffer, android_control_ws, pc, hr_open,
                   ctrl_open, inflight, last, track, accel_hist, hr_hist,
                   heart_rates, accelerations, features_out, skew_call,
                   feat_call>>

NextPeaks == PeaksEnter \/ PeaksIterate \/ PeaksReturn

SpecPeaks == InitPeaks /\ [][NextPeaks]_vars

(***************************************************************************)
(* A direct call of _safe_skew in each build.                              *)
(***************************************************************************)
\* Longest array handed to _safe_skew.
MaxSkewLen == 4

SkewValues == {NaN, 0, 6}

InitSkew ==
    /\ ServerInit
    /\ track = FALSE
    /\ heart_rates = <<>>
    /\ accelerations = <<>>
    /\ features_out = NotCalled
    /\ pk = NoPeakCall
    /\ feat_call = NoFeatCall
    /\ \E values \in SeqsUpTo(SkewValues, MaxSkewLen), build \in Builds :
           skew_call = [at |-> "call", build |-> build, values |-> values,
                        result |-> FloatNaN]

CallSafeSkew ==
    /\ skew_call.at = "call"
    /\ skew_call' = [skew_call EXCEPT
                         !.at = "done",
                         !.result = safe_skew(skew_call.values, skew_call.build)]
    /\ UNCHANGED <<accel_buffer, hr_buffer, android_control_ws, pc, hr_open,
                   ctrl_open, inflight, last, track, accel_hist, hr_hist,
                   heart_rates, accelerations, features_out, pk, feat_call>>

NextSkew == CallSafeSkew

SpecSkew == InitSkew /\ [][NextSkew]_vars


(***************************************************************************)
(* Properties.                                                             *)
(***************************************************************************)
Modes == {"normal", "minus10"}

Min(a, b) == IF a <= b THEN a ELSE b

LastN(seq, n) == SubSeq(seq, Len(seq) - n + 1, Len(seq))

\* A decision cycle ended in the step just taken.
CycleOver == last.id # 0

\* C1: when a decision cycle returns, whichever way it ended, the
\* acceleration buffer and the heart-rate buffer are both empty.
C1_BuffersEmptyAtReturn ==
    CycleOver => last.accel_left = 0 /\ last.hr_left = 0

\* C2: a decision cycle whose classifier call fails does not raise, and sends
\* the mode normal on the control channel attached at that time (and sends
\* nothing only when none is attached).
C2_ClassifierFailureSendsNormal ==
    (CycleOver /\ last.predict = "raised") =>
        /\ last.ret # "raised"
        /\ last.ws # None => last.msgs = {[mode |-> "normal", to |-> last.ws]}
        /\ last.ws = None => last.msgs = {}

\* C3: a decision cycle whose feature extraction raises decides normal and
\* never invokes the classifier.
C3_ExtractionFailureIsNormal ==
    (CycleOver /\ last.extract = "raised") =>
        /\ last.ret = "normal"
        /\ last.predict = "skipped"
        /\ \A i \in 1..Len(last.steps) : last.steps[i] # "predict"

C3_Witness ==
    /\ CycleOver
    /\ last.extract = "raised"
    /\ last.accel_left > 0
    /\ last.ws # None

\* C4: when extraction and the classifier both succeed, the decided mode is
\* normal exactly when the predicted score is <= 6 and minus10 otherwise; the
\* cycle returns that mode and every message it sends carries it.
C4_Threshold ==
    (CycleOver /\ last.extract = "ok" /\ last.predict = "ok") =>
        /\ (last.score # NaN /\ last.score <= 6) => last.ret = "normal"
        /\ ~(last.score # NaN /\ last.score <= 6) => last.ret = "minus10"
        /\ \A m \in last.msgs : m.mode = last.ret
        /\ last.send = "ok" => last.msgs = {[mode |-> last.ret, to |-> last.ws]}

C4_Witness ==
    /\ CycleOver
    /\ last.predict = "ok"
    /\ last.score = 6
    /\ last.ret = "normal"
    /\ last.msgs # {}

\* C5: a decision cycle never ends with an exception, whatever the outcome
\* of extraction, classifier and send and whether or not a control channel
\* is attached; it returns a mode, and the handler that started it is back
\* at reading the next message of its connection.
C5_CycleNeverRaises ==
    CycleOver => last.ret \in Modes /\ pc[last.conn] = "recv"

C5_Witness ==
    /\ CycleOver
    /\ last.send = "CancelledError"
    /\ last.ret \in Modes
    /\ pc[last.conn] = "recv"

\* C6: every message a decision cycle sends on the control channel carries
\* normal or minus10, and a cycle sends at most one message.
C6_OneMessageOfKnownMode ==
    /\ \A m \in last.msgs : m.mode \in Modes
    /\ Cardinality(last.msgs) <= 1

C6_Witness ==
    /\ CycleOver
    /\ Cardinality(last.msgs) = 1
    /\ Cardinality(ctrl_open) = 2

\* C7: neither buffer ever holds more samples than its capacity, and each
\* buffer equals, in arrival order, the most recent min(capacity, k) of the
\* k samples appended since it was last cleared.
C7_BufferIsRecentWindow ==
    /\ Len(accel_buffer) <= AccelMaxLen
    /\ Len(hr_buffer) <= HrMaxLen
    /\ accel_buffer = LastN(accel_hist, Min(AccelMaxLen, Len(accel_hist)))
    /\ hr_buffer = LastN(hr_hist, Min(HrMaxLen, Len(hr_hist)))

C7_Witness ==
    /\ Len(accel_hist) > AccelMaxLen
    /\ Len(hr_hist) > HrMaxLen
    /\ accel_hist[1] # accel_buffer[1]
    /\ hr_hist[1] # hr_buffer[1]

\* C8: while a decision cycle is in flight, every open ingestion connection
\* can take an arriving accelerometer sample and every open heart-rate
\* connection an arriving heart-rate sample, without waiting for the cycle.
C8_AppendNeverWaitsForCycle ==
    inflight # {} =>
        /\ \A c \in FitbitConns :
               pc[c] \notin {"closed", "upload"} => CanReceive(c)
        /\ \A h \in hr_open : CanReceiveHr(h)

\* C9 as claimed: no two decision cycles are in flight at the same time.
C9_AtMostOneCycle == Cardinality(inflight) <= 1

\* C9 as amended: the cycles in flight belong to different ingestion
\* connections, each to a connection whose handler is waiting for it: a
\* connection starts its next cycle only after its previous one returned.
C9_OneCyclePerConnection ==
    /\ \A a, b \in inflight : a.conn = b.conn => a = b
    /\ \A c \in FitbitConns :
           pc[c] = "cycle" <=> \E cy \in inflight : cy.conn = c

C9_Witness ==
    /\ Cardinality(inflight) = 2
    /\ \A c \in FitbitConns : pc[c] = "cycle"

\* C10: create_features raises whenever the heart-rate window is empty or
\* all NaN and whenever the acceleration window is empty or has a row that
\* is not a triplet, and raises for no other input; when both windows are
\* at fault the heart-rate check is the one that fails.
HrInvalid(hrs) == hrs = <<>> \/ \A i \in 1..Len(hrs) : hrs[i] = NaN

AccInvalid(accs) == accs = <<>> \/ \E i \in 1..Len(accs) : Len(accs[i]) # 3

Ragged(accs) == \E i, j \in 1..Len(accs) : Len(accs[i]) # Len(accs[j])

C10_Validation ==
    features_out # NotCalled =>
        /\ features_out.raised <=> (HrInvalid(heart_rates) \/ AccInvalid(accelerations))
        /\ (HrInvalid(heart_rates) /\ ~Ragged(accelerations))
               => features_out.error = "heart_rates"
        /\ (~HrInvalid(heart_rates) /\ AccInvalid(accelerations) /\ ~Ragged(accelerations))
               => features_out.error = "accelerations"

C10_Witness ==
    /\ features_out.raised
    /\ features_out.error = "heart_rates"
    /\ heart_rates # <<>>
    /\ AccInvalid(accelerations)
    /\ accelerations # <<>>

\* An index the loop of _naive_find_peaks does not skip: interior, and
\* neither of the tests of lines 33 and 35 is true of it.  The tests are
\* float comparisons, so an index that holds nan, or whose neighbours are
\* nan, passes them.
IsPeakCandidate(values, height, i) ==
    /\ 1 <= i /\ i <= Len(values) - 2
    /\ ~FloatLt(At(values, i), height)
    /\ ~FloatLeq(At(values, i), At(values, i - 1))
    /\ ~FloatLeq(At(values, i), At(values, i + 1))

\* An interior index whose value is at least height and strictly greater
\* than both neighbours.
IsPeak(values, height, i) ==
    /\ 1 <= i /\ i <= Len(values) - 2
    /\ FloatLeq(height, At(values, i))
    /\ FloatGt(At(values, i), At(values, i - 1))
    /\ FloatGt(At(values, i), At(values, i + 1))

\* The index examined by the iteration just taken.
Examined == pk.idx - 1

\* C12: in _naive_find_peaks a candidate fewer than distance indices after
\* the last accepted peak replaces it exactly when it is strictly taller and
\* is dropped otherwise (of two equal peaks the earlier stays); the indices
\* in the list are strictly increasing and at least distance apart.
C12_CloserPeakReplacesIffTaller ==
    /\ (/\ pk.at \in {"loop", "done"}
        /\ pk.event # "none"
        /\ IsPeakCandidate(pk.values, pk.height, Examined)
        /\ pk.before # <<>>
        /\ Examined - pk.before[Len(pk.before)] < pk.distance)
         => IF FloatGt(At(pk.values, Examined),
                       At(pk.values, pk.before[Len(pk.before)]))
            THEN pk.peaks = [pk.before EXCEPT ![Len(pk.before)] = Examined]
            ELSE pk.peaks = pk.before
    /\ \A i \in 1..(Len(pk.peaks) - 1) :
           /\ pk.peaks[i] < pk.peaks[i + 1]
           /\ pk.peaks[i + 1] - pk.peaks[i] >= pk.distance

C12_Witness ==
    /\ pk.at = "done"
    /\ pk.event = "dropped"
    /\ At(pk.values, Examined) = At(pk.values, pk.peaks[Len(pk.peaks)])

\* C20: when _naive_find_peaks has returned, every interior index whose
\* value is at least height and strictly greater than both neighbours, and
\* which is not in the result, lies fewer than distance indices from a
\* returned peak whose value is at least as large; and every returned index
\* is interior, at least height and strictly greater than both neighbours.
C20_NoIsolatedPeakLost ==
    pk.at = "done" =>
        LET returned == {pk.peaks[j] : j \in 1..Len(pk.peaks)} IN
        /\ \A i \in 1..(Len(pk.values) - 2) :
               (IsPeak(pk.values, pk.height, i) /\ i \notin returned)
                   => \E p \in returned :
                          /\ (IF p > i THEN p - i ELSE i - p) < pk.distance
                          /\ FloatLeq(At(pk.values, i), At(pk.values, p))
        /\ \A p \in returned : IsPeak(pk.values, pk.height, p)

\* The first half of C20 alone, for sequences without nan.
IsolatedPeaksKeptWithoutNaN ==
    (pk.at = "done" /\ ~HasNaN(pk.values)) =>
        LET returned == {pk.peaks[j] : j \in 1..Len(pk.peaks)} IN
        \A i \in 1..(Len(pk.values) - 2) :
            (IsPeak(pk.values, pk.height, i) /\ i \notin returned)
                => \E p \in returned :
                       /\ (IF p > i THEN p - i ELSE i - p) < pk.distance
                       /\ FloatLeq(At(pk.values, i), At(pk.values, p))

\* The second half of C20 alone: every returned index is a peak.
ReturnedArePeaks ==
    pk.at = "done" =>
        \A j \in 1..Len(pk.peaks) : IsPeak(pk.values, pk.height, pk.peaks[j])

\* The second half of C20 for sequences without nan.
ReturnedArePeaksWithoutNaN ==
    (pk.at = "done" /\ ~HasNaN(pk.values)) =>
        \A j \in 1..Len(pk.peaks) : IsPeak(pk.values, pk.height, pk.peaks[j])

\* Every returned index is one the loop did not skip.
ReturnedAreCandidates ==
    pk.at = "done" =>
        \A j \in 1..Len(pk.peaks) :
            IsPeakCandidate(pk.values, pk.height, pk.peaks[j])

\* The stepwise run and the operator agree.
PeakRunAgrees ==
    pk.at = "done" =>
        pk.peaks = naive_find_peaks(pk.values, pk.height, pk.distance)

\* All values of an array are one number.
IsConstant(values) ==
    /\ ~HasNaN(values)
    /\ \A i, j \in 1..Len(values) : values[i] = values[j]

\* C13: _safe_skew returns exactly 0, not nan, for every constant array of
\* 3 or more values, and nan for every array of fewer than 3 values.
C13_SkewOfConstantIsZero ==
    skew_call.at = "done" =>
        /\ (Len(skew_call.values) >= 3 /\ IsConstant(skew_call.values))
               => skew_call.result = FloatZero
        /\ Len(skew_call.values) < 3 => skew_call.result = FloatNaN

\* The second half of C13 alone.
SkewOfShortIsNaN ==
    (skew_call.at = "done" /\ Len(skew_call.values) < 3)
        => skew_call.result = FloatNaN

\* C13 in the build without SciPy.
SkewOfConstantIsZeroInFallback ==
    (/\ skew_call.at = "done"
     /\ ~HasScipy(skew_call.build)
     /\ Len(skew_call.values) >= 3
     /\ IsConstant(skew_call.values)) => skew_call.result = FloatZero

\* A direct create_features call has returned its list.
FeaturesReturned == features_out # NotCalled /\ ~features_out.raised

\* The signal is constant, so that it has no power, or its low band holds
\* none.
LowPowerZero(xyz, rate) ==
    CentralSum(xyz, 2) = 0 \/ LowPower(xyz, rate) = "zero"

\* The low band of a signal that is not constant holds power.
LowPowerPositive(xyz, rate) ==
    CentralSum(xyz, 2) # 0 /\ LowPower(xyz, rate) = "positive"

\* C11: for windows that pass the two checks create_features returns 8
\* values in the order mean_hr, max_hr, lambda_hr, y_skewness,
\* xyz_cycle_std, xyz_cycle_mean, y_peak_mean, xyz_high_low_ratio.  No peak
\* in y, fewer than 2 peaks in xyz, fewer than 3 samples (skewness) and
\* fewer than 4 samples or no low-band power (spectral ratio) each put nan
\* in the slot concerned and leave the other slots defined.
C11_EightFeaturesInOrder ==
    FeaturesReturned =>
        LET f == feat_call.feats
            n == Len(accelerations)
            y == Column(accelerations, 1)
            xyz == [i \in 1..n |-> Norm(accelerations[i])]
            valid == SelectSeq(heart_rates, NotNaN)
            yp == feat_call.y_peaks
            xp == feat_call.xyz_peaks
        IN
        /\ Len(f) = 8
        /\ f[1] = Float(SumSeq(valid), Len(valid), "ratio")
        /\ f[2] = Float(SetMax({valid[i] : i \in 1..Len(valid)}), 1, "ratio")
        /\ f[3] = Float(valid[Len(valid)] - valid[1], 1, "ratio")
        /\ n < 3 => f[4].nan
        /\ (n >= 3 /\ ~IsConstant(y)) =>
               ~f[4].nan /\ f[4].form \in {"skew_ddof0", "skew_ddof1"}
        /\ Len(xp) < 2 => f[5].nan /\ f[6].nan
        /\ Len(xp) >= 2 =>
               /\ ~f[5].nan /\ f[5].form = "sqrt"
               /\ f[6] = Float(xp[Len(xp)] - xp[1], (Len(xp) - 1) * feat_call.rate,
                               "ratio")
        /\ yp = <<>> <=> f[7].nan
        /\ yp # <<>> => f[7].form = "ratio" /\ f[7].den = Len(yp)
        /\ (n < 4 \/ HasNaN(xyz) \/ LowPowerZero(xyz, feat_call.rate))
               => f[8].nan
        /\ (n >= 4 /\ ~HasNaN(xyz) /\ LowPowerPositive(xyz, feat_call.rate)) =>
               ~f[8].nan /\ f[8].form \in {"ratio", "high_low"}

C11_Witness ==
    /\ FeaturesReturned
    /\ feat_call.feats[7].nan
    /\ feat_call.feats[5].nan
    /\ ~feat_call.feats[8].nan
    /\ ~feat_call.feats[4].nan

\* C14: every decision cycle that has started is eventually over, whatever
\* the outcomes of extraction, classifier and send: a handler that waits
\* for its cycle does not wait for ever.
C14_CycleTerminates ==
    \A c \in FitbitConns : (pc[c] = "cycle") ~> (pc[c] # "cycle")

C14_Witness ==
    /\ CycleOver
    /\ last.send = "RuntimeError"
    /\ last.steps = <<"extract", "predict", "send", "clear">>
    /\ inflight = {}

\* C15: a decision cycle is started by a fatigue message on /ws and by
\* nothing else.  A step that handles a fatigue message starts exactly one
\* call of run_intervention_logic; every call that starts, every call that
\* is suspended and every call that delivers a message was made for a
\* fatigue message.
C15_OnlyFatigueStartsCycle ==
    [][LET started_over == last'.id # 0 /\ last'.send = "none"
           started == Cardinality(inflight' \ inflight)
                          + (IF started_over THEN 1 ELSE 0)
       IN  /\ \A cy \in inflight' : cy.trigger = "fatigue"
           /\ last'.id # 0 => last'.trigger = "fatigue"
           /\ started <= 1
           /\ started = 1 =>
                  \E c \in FitbitConns, clf \in ClfOutcomes : RecvFatigue(c, clf)
           /\ started = 0 =>
                  ~\E c \in FitbitConns, clf \in ClfOutcomes : RecvFatigue(c, clf)
      ]_vars

C15_Witness ==
    /\ Cardinality(inflight) = 1
    /\ \A cy \in inflight : cy.trigger = "fatigue" /\ cy.run.predict = "ok"
    /\ hr_open # {}
    /\ Cardinality(ctrl_open) = 1

\* The steps of a decision cycle in the order of lines 222-252.
StepOrder == <<"extract", "predict", "send", "clear">>

StepIndex(step) == CHOOSE i \in 1..Len(StepOrder) : StepOrder[i] = step

\* Each step of the sequence comes later in StepOrder than the one before
\* it; so no step occurs twice.
InStepOrder(steps) ==
    \A i, j \in 1..Len(steps) :
        i < j => StepIndex(steps[i]) < StepIndex(steps[j])

Has(steps, step) == \E i \in 1..Len(steps) : steps[i] = step

\* C16: the steps of a cycle occur in the order extract, classifier, send,
\* clear, none of them twice; the classifier is invoked only after an
\* extraction that succeeded, a message is sent only after the classifier
\* was invoked and answered, and the buffers are cleared only when the
\* send, if there was one, is over.
C16_StepsInOrder ==
    /\ CycleOver =>
           /\ last.steps # <<>> /\ last.steps[1] = "extract"
           /\ InStepOrder(last.steps)
           /\ Has(last.steps, "predict") => last.extract = "ok"
           /\ Has(last.steps, "send") =>
                  Has(last.steps, "predict") /\ last.predict = "ok"
           /\ (Has(last.steps, "clear") /\ Has(last.steps, "send"))
                  => last.send # "none"
    /\ \A cy \in inflight :
           /\ cy.run.steps = <<"extract", "predict", "send">>
           /\ cy.run.extract = "ok" /\ cy.run.predict = "ok"

C16_Witness ==
    /\ CycleOver
    /\ last.steps = <<"extract", "predict", "send", "clear">>
    /\ last.send = "ok"
    /\ last.score = 7

\* C17: when a /ws connection is accepted both buffers are empty.
C17_WindowsEmptyAtSessionStart ==
    [][(\E c \in FitbitConns : pc[c] = "closed" /\ pc'[c] = "recv")
           => (accel_buffer' = <<>> /\ hr_buffer' = <<>>)]_vars

\* C18: while a control connection is open android_control_ws refers to an
\* open one, and while none is open it is None.
C18_ReferenceConsistent ==
    /\ ctrl_open # {} => android_control_ws \in ctrl_open
    /\ ctrl_open = {} => android_control_ws = None

\* The second half of C18 alone: a control handler that ends without line
\* 209 leaves the reference on its socket.
NoneWhenNoControlOpen == ctrl_open = {} => android_control_ws = None

\* C19: the clear at the end of a cycle discards only samples the cycle's
\* extraction read: when a suspended call clears, the two buffers are as
\* they were when it read them.
C19_ClearDiscardsOnlyWhatWasRead ==
    [][\A cy \in inflight :
           (cy \notin inflight' /\ Has(last'.steps, "clear"))
               => <<accel_buffer, hr_buffer>> = cy.seen]_vars

\* The first half of C19: whatever a call decides, it decides on the two
\* buffers as they are in the step that handles the trigger.
ExtractionReadsAtTrigger ==
    \A cy \in inflight :
        cy.run.extract = "ok" /\ ~create_features(cy.seen[2], cy.seen[1]).raised

====
